---- MODULE Spec2Model ----
(***************************************************************************)
(* A model of flacr.py: the dispatch of verify / re-encode jobs over the   *)
(* discovered .flac files, the replacement of each original by its         *)
(* re-encoded temp file, the collection of outcomes by the main thread,    *)
(* the replay-gain step, the error report and the interrupt handler.       *)
(*                                                                         *)
(* The external programs (flac, rsgain) and the file-system calls are      *)
(* black boxes: every result the code distinguishes (exit status, captured *)
(* stderr, timeout, PermissionError, other OSError) is an input drawn from *)
(* a small set.                                                            *)
(***************************************************************************)
EXTENDS Integers, Sequences, FiniteSets, TLC

\* ------------------------------------------------------------------ bounds
MaxFiles == 2
MaxThreads == 2

\* ------------------------------------------------------------- value sets
NoneVal == "None"
\* The None in the size fields of (file_path, stderr, None, None).
NoSize == -1
EmptyText == ""
StderrText == "stderr text"
LockedText == "File locked. Manual replacement required."

\* Python's truth value of the second component of an outcome (`if stderr:`).
Truthy(s) == s \notin {EmptyText, NoneVal}

\* What subprocess.run can end with, as the code tells the cases apart:
\* a normal return (exit status 0), CalledProcessError (check=True, non-zero
\* exit) and TimeoutExpired; with the stderr attribute each one carries.
\* TimeoutExpired.stderr is None when nothing was captured before the kill.
ProcResults ==
    { [exit |-> "zero", stderr |-> EmptyText],
      [exit |-> "zero", stderr |-> StderrText],
      [exit |-> "nonzero", stderr |-> EmptyText],
      [exit |-> "nonzero", stderr |-> StderrText],
      [exit |-> "timeout", stderr |-> NoneVal],
      [exit |-> "timeout", stderr |-> StderrText] }

\* Results of os.remove / os.rename the code tells apart.
OsResults == {"ok", "PermissionError", "OSError"}

\* os.path.getsize of the original (a file of its own size each) and of a
\* freshly encoded temp file.
OrigSizeOf(f) == f + 1
NewSizes == {1}

\* `flac --version` outputs, "flac <major>.<minor>.<patch>", as number triples.
VersionSamples ==
    { <<1, 3, 4>>, <<1, 4, 3>>, <<1, 5, 0>>, <<1, 10, 0>>, <<2, 0, 0>>, <<10, 0, 0>> }
NoVersion == <<>>
VersionTimeout == <<0>>

VARIABLES
    nfiles,        \* len(flac_files)
    thread_count,  \* args.multi_threaded
    test_run,      \* args.test
    multi_threaded,\* args.j
    calc_rsgain,   \* args.rsgain
    log_to_disk,   \* args.log
    dir_entries,   \* the entries of args.directory, in listing order
    flac_files,    \* the paths find_flac_files returned
    pc,            \* position of the main thread
    flac_version,  \* what `flac --version` printed, once queried
    job,           \* per file: position and outcome of its job
    cmd_threads,   \* per file: the --threads=<n> argument given (0: none)
    orig,          \* per file: what is at file_path
    temp,          \* per file: what is at file_path + ".tmp"
    collected,     \* files whose outcome the dispatch loop has consumed, in order
    size_stats,
    error_log,
    error_count,
    pending_exc,   \* exception propagating out of the dispatch block
    interrupted,   \* a KeyboardInterrupt has been raised
    rsgain_calls,  \* number of run_rsgain invocations
    logged,        \* write_log appended the errors to flacr_error.log
    printed,       \* the errors were printed to the console
    log_skipped    \* write_log printed "Skipping log creation." instead of logging

vars == << nfiles, thread_count, test_run, multi_threaded, calc_rsgain, log_to_disk,
           dir_entries, flac_files,
           pc, flac_version, job, cmd_threads, orig, temp, collected, size_stats,
           error_log, error_count, pending_exc, interrupted, rsgain_calls, logged,
           printed, log_skipped >>

config == << nfiles, thread_count, test_run, multi_threaded, calc_rsgain, log_to_disk,
             dir_entries >>
aggregate == << collected, size_stats, error_log, error_count >>
report == << rsgain_calls, logged, printed, log_skipped >>

Files == 1..nfiles

\* ---------------------------------------------------------------- discovery
\* A file name is the sequence of its dot-separated parts: "a.flac.tmp" is
\* <<"a", "flac", "tmp">>. A directory entry has a name, a kind and a
\* readable flag (os.path.isfile, os.access(R_OK)).
Entry(n, k, r) == [name |-> n, kind |-> k, readable |-> r]

\* Names discovery accepts, in the order a directory of n candidates lists them.
CandidateNames ==
    << <<"a", "flac">>, <<"a", "FLAC">>, <<"a", "flac", "tmp", "flac">>, <<"b", "Flac">> >>

\* A directory with n candidates among entries discovery must skip: another
\* extension, a directory named like a candidate, an unreadable file, a left
\* over temp file and a file without extension.
Listing(n) ==
    << Entry(<<"b", "txt">>, "file", TRUE), Entry(<<"d", "flac">>, "dir", TRUE) >>
    \o [i \in 1..n |-> Entry(CandidateNames[i], "file", TRUE)]
    \o << Entry(<<"u", "flac">>, "file", FALSE), Entry(<<"a", "flac", "tmp">>, "file", TRUE),
          Entry(<<"flac">>, "file", TRUE) >>

\* str.lower() on the name parts that occur.
Lower(part) ==
    CASE part = "FLAC" -> "flac"
      [] part = "Flac" -> "flac"
      [] OTHER -> part

\* file.lower().endswith(".flac") and os.path.isfile and os.access(R_OK).
IsCandidate(e) ==
    /\ Len(e.name) >= 2
    /\ Lower(e.name[Len(e.name)]) = "flac"
    /\ e.kind = "file"
    /\ e.readable

RECURSIVE Names(_)
Names(es) == IF es = <<>> THEN <<>> ELSE <<Head(es).name>> \o Names(Tail(es))

\* find_flac_files: the paths of the candidates, in listing order.
find_flac_files(es) == Names(SelectSeq(es, IsCandidate))

\* A temp path with the extension replaced: "a.flac" gives "a.tmp".
TempPathReplacingExt(p) == Append(SubSeq(p, 1, Len(p) - 1), "tmp")

\* temp_file_path = file_path + ".tmp"
TempPath(p) == Append(p, "tmp")

\* ------------------------------------------------------------ dispatch mode
\* The mode selector read without regard to the job kind.
SequentialWideAnyKind == multi_threaded

\* `if not test_run:` / `if multi_threaded:`
SequentialWide == ~test_run /\ multi_threaded
FanOut == ~SequentialWide

NewJob == [pc |-> "pending", exit |-> "none", diag |-> EmptyText,
           before |-> NoSize, after |-> NoSize, temp_path |-> <<>>]

InFlightPcs == {"encoding", "encoded", "removed", "verifying"}
InFlight == {f \in Files : job[f].pc \in InFlightPcs}
Pending == {f \in Files : job[f].pc = "pending"}
Min(S) == CHOOSE x \in S : \A y \in S : x <= y

Init ==
    /\ nfiles \in 0..MaxFiles
    /\ thread_count \in 1..MaxThreads
    /\ test_run \in BOOLEAN
    /\ multi_threaded \in BOOLEAN
    /\ calc_rsgain \in BOOLEAN
    /\ log_to_disk \in BOOLEAN
    /\ dir_entries = Listing(nfiles)
    /\ flac_files = <<>>
    /\ pc = "start"
    /\ flac_version = NoVersion
    /\ job = [f \in 1..nfiles |-> NewJob]
    /\ cmd_threads = [f \in 1..nfiles |-> 0]
    /\ orig = [f \in 1..nfiles |-> "original"]
    /\ temp = [f \in 1..nfiles |-> "absent"]
    /\ collected = <<>>
    /\ size_stats = <<>>
    /\ error_log = <<>>
    /\ error_count = 0
    /\ pending_exc = "none"
    /\ interrupted = FALSE
    /\ rsgain_calls = 0
    /\ logged = FALSE
    /\ printed = FALSE
    /\ log_skipped = FALSE

\* ------------------------------------------------------- flac_version_check
\* The decimal digits of a version number, as `flac --version` prints it.
RECURSIVE Digits(_)
Digits(n) == IF n < 10 THEN <<n>> ELSE Append(Digits(n \div 10), n % 10)

\* The pattern with [4-9] in place of [5-9].
VersionPatternOffByOne(v) ==
    LET major == Digits(v[1])
        minor == Digits(v[2])
    IN  \/ major = <<1>> /\ (Len(minor) >= 2 \/ minor[1] \in 4..9)
        \/ Len(major) = 1 /\ major[1] \in 2..9

\* re.search(version_pattern, stdout) with
\*   ^flac 1\.([5-9]|\d{2,})\.\d+ | ^flac [2-9]\.\d+\.\d+
\* on the output "flac <major>.<minor>.<patch>".
VersionPatternMatches(v) ==
    LET major == Digits(v[1])
        minor == Digits(v[2])
        patch == Digits(v[3])
    IN  \/ /\ major = <<1>>
           /\ \/ Len(minor) = 1 /\ minor[1] \in 5..9
              \/ Len(minor) >= 2
           /\ Len(patch) >= 1
        \/ /\ Len(major) = 1 /\ major[1] \in 2..9
           /\ Len(minor) >= 1
           /\ Len(patch) >= 1

\* ------------------------------------------------------------- main thread
\* flac_on_path(), rsgain_on_path() and find_flac_files(): a missing tool ends
\* the process with sys.exit() before anything else happens.
Preflight ==
    /\ pc = "start"
    /\ \E flacFound \in BOOLEAN, rsgainFound \in BOOLEAN :
          IF ~flacFound \/ (calc_rsgain /\ ~rsgainFound)
          THEN pc' = "exited" /\ UNCHANGED flac_files
          ELSE pc' = "discovered" /\ flac_files' = find_flac_files(dir_entries)
    /\ UNCHANGED << config, flac_version, job, cmd_threads, orig, temp, aggregate,
                    pending_exc, interrupted, report >>

\* `if multi_threaded: flac_version_check()`: sys.exit() unless the pattern
\* matches; a timeout of the query exits too.
VersionCheck ==
    /\ pc = "discovered"
    /\ SequentialWide
    /\ \E v \in VersionSamples \cup {VersionTimeout} :
          /\ flac_version' = v
          /\ pc' = IF v # VersionTimeout /\ VersionPatternMatches(v)
                   THEN "dispatch" ELSE "exited"
    /\ UNCHANGED << config, flac_files, job, cmd_threads, orig, temp, aggregate,
                    pending_exc, interrupted, report >>

\* The ThreadPoolExecutor is created and every file is submitted to it.
Submit ==
    /\ pc = "discovered"
    /\ FanOut
    /\ pc' = "dispatch"
    /\ UNCHANGED << config, flac_files, flac_version, job, cmd_threads, orig, temp, aggregate,
                    pending_exc, interrupted, report >>

\* ------------------------------------------------------------ job executor
\* A job may start: in the pool when a worker is free (workers take the queue
\* in submission order, also while the executor shuts down); in
\* sequential-wide mode when the loop reaches the file.
MayStart(f) ==
    /\ Pending # {}
    /\ f = Min(Pending)
    /\ IF FanOut
       THEN /\ pc \in {"dispatch", "shutdown"}
            /\ Cardinality(InFlight) < thread_count
       ELSE /\ pc = "dispatch"
            /\ InFlight = {}
            /\ \A g \in Files : g < f => job[g].pc = "collected"

\* Every call left at the default thread_count=1.
ThreadHintDefault == 1

\* Every call given the run's thread count.
ThreadHintFull == thread_count

\* The thread_count argument reencode_flac is called with.
ThreadHint == IF SequentialWide THEN thread_count ELSE 1

\* reencode_flac up to the start of the encoder: os.path.getsize(file_path)
\* is outside any try block, then the command is built.
StartReencode(f) ==
    /\ ~test_run
    /\ MayStart(f)
    /\ \E statOk \in BOOLEAN :
          IF statOk
          THEN /\ job' = [job EXCEPT ![f] = [@ EXCEPT !.pc = "encoding",
                                                     !.before = OrigSizeOf(f),
                                                     !.temp_path = TempPath(flac_files[f])]]
               /\ cmd_threads' = [cmd_threads EXCEPT ![f] =
                                    IF ThreadHint > 1 THEN ThreadHint ELSE 0]
          ELSE /\ job' = [job EXCEPT ![f] = [@ EXCEPT !.pc = "raised"]]
               /\ UNCHANGED cmd_threads
    /\ UNCHANGED << config, flac_files, pc, flac_version, orig, temp, aggregate,
                    pending_exc, interrupted, report >>

\* verify_flac up to the start of `flac -t`.
StartVerify(f) ==
    /\ test_run
    /\ MayStart(f)
    /\ job' = [job EXCEPT ![f] = [@ EXCEPT !.pc = "verifying"]]
    /\ UNCHANGED << config, flac_files, pc, flac_version, cmd_threads, orig, temp, aggregate,
                    pending_exc, interrupted, report >>

\* A verify job whose worker thread appends to the error log itself.
FinishVerifyAppends(f) ==
    /\ f \in Files
    /\ job[f].pc = "verifying"
    /\ \E r \in ProcResults :
          /\ job' = [job EXCEPT ![f] = [@ EXCEPT !.pc = "returned", !.exit = r.exit,
                                                   !.diag = r.stderr]]
          /\ error_log' = IF Truthy(r.stderr)
                          THEN Append(error_log, <<f, r.stderr>>) ELSE error_log
    /\ UNCHANGED << config, flac_files, pc, flac_version, cmd_threads, orig, temp, collected,
                    size_stats, error_count, pending_exc, interrupted, report >>

\* verify_flac: the command ends; the outcome is (path, stderr, None, None),
\* with getattr(e, 'stderr', str(e)) for CalledProcessError / TimeoutExpired.
FinishVerify(f) ==
    /\ f \in Files
    /\ job[f].pc = "verifying"
    /\ \E r \in ProcResults :
          job' = [job EXCEPT ![f] = [@ EXCEPT !.pc = "returned", !.exit = r.exit,
                                                !.diag = r.stderr]]
    /\ UNCHANGED << config, flac_files, pc, flac_version, cmd_threads, orig, temp, aggregate,
                    pending_exc, interrupted, report >>

\* An outcome that reports new_size whenever it has been read.
ReturnedNewSize(r, text, a) ==
    [pc |-> "returned", exit |-> r.exit, diag |-> text,
     before |-> r.before, after |-> IF r.after = NoSize THEN a ELSE r.after,
     temp_path |-> r.temp_path]

\* The outcome tuple (file_path, stderr, original_size, new_size) a job returns.
Returned(r, text, a) ==
    [pc |-> "returned", exit |-> r.exit, diag |-> text,
     before |-> r.before, after |-> a, temp_path |-> r.temp_path]

\* reencode_flac: the encoder ends (lines 136-143 and 154-157).
\*   exit 0, no stderr: os.path.getsize(temp_file_path), then on to the replacement;
\*   exit 0 with stderr, CalledProcessError, TimeoutExpired: the temp file is
\*   removed if it exists and (path, stderr, original_size, original_size) returned.
\* `wrote`: the encoder left a file at the temp path; `osOk`: the getsize or
\* remove call succeeded (neither is guarded against OSError).
FinishEncode(f) ==
    /\ f \in Files
    /\ job[f].pc = "encoding"
    /\ \E r \in ProcResults, wrote \in BOOLEAN, osOk \in BOOLEAN, sz \in NewSizes :
          LET j == [job[f] EXCEPT !.exit = r.exit]
          IN  IF r.exit = "zero" /\ ~Truthy(r.stderr)
              THEN /\ wrote
                   /\ temp' = [temp EXCEPT ![f] = "complete"]
                   /\ job' = [job EXCEPT ![f] =
                                IF osOk THEN [j EXCEPT !.pc = "encoded", !.after = sz]
                                        ELSE [j EXCEPT !.pc = "raised"]]
              ELSE /\ temp' = [temp EXCEPT ![f] =
                                 IF wrote /\ ~osOk
                                 THEN (IF r.exit = "zero" THEN "complete" ELSE "partial")
                                 ELSE "absent"]
                   /\ job' = [job EXCEPT ![f] =
                                IF wrote /\ ~osOk
                                THEN [j EXCEPT !.pc = "raised"]
                                ELSE Returned(j, r.stderr, j.before)]
    /\ UNCHANGED << config, flac_files, pc, flac_version, cmd_threads, orig, aggregate,
                    pending_exc, interrupted, report >>

\* os.remove(file_path), line 147. PermissionError is caught and gives the
\* "manual replacement required" outcome; any other OSError propagates.
RemoveOriginal(f) ==
    /\ f \in Files
    /\ job[f].pc = "encoded"
    /\ \E res \in OsResults :
          /\ orig' = [orig EXCEPT ![f] = IF res = "ok" THEN "absent" ELSE @]
          /\ job' = [job EXCEPT ![f] =
                       CASE res = "ok" -> [@ EXCEPT !.pc = "removed"]
                         [] res = "PermissionError" -> Returned(@, LockedText, @.before)
                         [] OTHER -> [@ EXCEPT !.pc = "raised"]]
    /\ UNCHANGED << config, flac_files, pc, flac_version, cmd_threads, temp, aggregate,
                    pending_exc, interrupted, report >>

\* A copy in place of the rename: the temp file stays.
RenamedByCopy(res, o, t) == IF res = "ok" THEN <<"reencoded", t>> ELSE <<o, t>>

\* A rename whose failure is followed by a clean-up of the temp file.
RenamedOrCleaned(res, o, t) ==
    IF res = "ok" THEN <<"reencoded", "absent">> ELSE <<o, "absent">>

\* What os.rename(temp_file_path, file_path) leaves at <<file_path, temp path>>:
\* the temp file moved to the original's path, or nothing changed on an error.
Renamed(res, o, t) == IF res = "ok" THEN <<"reencoded", "absent">> ELSE <<o, t>>

\* os.rename(temp_file_path, file_path), line 148, in the same try block, and
\* the return of (path, stderr, original_size, new_size), line 153.
RenameTemp(f) ==
    /\ f \in Files
    /\ job[f].pc = "removed"
    /\ \E res \in OsResults :
          /\ orig' = [orig EXCEPT ![f] = Renamed(res, orig[f], temp[f])[1]]
          /\ temp' = [temp EXCEPT ![f] = Renamed(res, orig[f], temp[f])[2]]
          /\ job' = [job EXCEPT ![f] =
                       CASE res = "ok" -> Returned(@, EmptyText, @.after)
                         [] res = "PermissionError" -> Returned(@, LockedText, @.before)
                         [] OTHER -> [@ EXCEPT !.pc = "raised"]]
    /\ UNCHANGED << config, flac_files, pc, flac_version, cmd_threads, aggregate,
                    pending_exc, interrupted, report >>

\* ------------------------------------------------------ dispatch loop body
\* One iteration of the loop over the outcomes (as_completed(futures), or the
\* files in order): size_stats.append in re-encode runs, and the error log and
\* count when the outcome's stderr is truthy.
Collect(f) ==
    /\ f \in Files
    /\ pc = "dispatch"
    /\ job[f].pc = "returned"
    /\ job' = [job EXCEPT ![f] = [@ EXCEPT !.pc = "collected"]]
    /\ collected' = Append(collected, f)
    /\ size_stats' = IF test_run THEN size_stats
                     ELSE Append(size_stats, <<job[f].before, job[f].after>>)
    /\ error_log' = IF Truthy(job[f].diag)
                    THEN Append(error_log, <<f, job[f].diag>>) ELSE error_log
    /\ error_count' = IF Truthy(job[f].diag) THEN error_count + 1 ELSE error_count
    /\ UNCHANGED << config, flac_files, pc, flac_version, cmd_threads, orig, temp,
                    pending_exc, interrupted, report >>

\* future.result() (or the direct call) raises what the job raised: the
\* exception leaves the loop. In the pool's `with` block it first meets
\* executor.__exit__, which is shutdown(wait=True).
CollectRaised(f) ==
    /\ f \in Files
    /\ pc = "dispatch"
    /\ job[f].pc = "raised"
    /\ pending_exc' = "OSError"
    /\ pc' = IF FanOut THEN "shutdown" ELSE "crashed"
    /\ UNCHANGED << config, flac_files, flac_version, job, cmd_threads, orig, temp, aggregate,
                    interrupted, report >>

\* A loop that ends once every job has finished, consumed or not.
AllFinished == \A f \in Files : job[f].pc \in {"returned", "collected"}

\* The loop has consumed every outcome.
AllCollected == \A f \in Files : job[f].pc = "collected"

DispatchDone ==
    /\ pc = "dispatch"
    /\ AllCollected
    /\ pc' = "post"
    /\ UNCHANGED << config, flac_files, flac_version, job, cmd_threads, orig, temp, aggregate,
                    pending_exc, interrupted, report >>

\* KeyboardInterrupt in the main thread. In the pool's `with` block it meets
\* shutdown(wait=True), which joins the workers while they drain the queue.
\* In sequential-wide mode, and on an interrupt during that join, it reaches
\* the handler at once: os._exit(130) ends every thread where it stands.
Interrupt ==
    /\ pc \in {"dispatch", "shutdown"}
    /\ interrupted' = TRUE
    /\ pending_exc' = "KeyboardInterrupt"
    /\ IF FanOut /\ pc = "dispatch"
       THEN /\ pc' = "shutdown"
            /\ UNCHANGED << job, temp >>
       ELSE /\ pc' = "exit130"
            /\ \E W \in SUBSET {f \in Files : job[f].pc = "encoding"} :
                  temp' = [f \in Files |-> IF f \in W THEN "partial" ELSE temp[f]]
            /\ job' = [f \in Files |->
                         IF f \in InFlight THEN [job[f] EXCEPT !.pc = "killed"]
                         ELSE job[f]]
    /\ UNCHANGED << config, flac_files, flac_version, cmd_threads, orig, aggregate, report >>

\* shutdown(wait=True) returns once no work item is queued or running; the
\* exception then reaches the top level: exit status 130 for
\* KeyboardInterrupt, a traceback otherwise.
ShutdownDone ==
    /\ pc = "shutdown"
    /\ InFlight = {}
    /\ Pending = {}
    /\ pc' = IF pending_exc = "KeyboardInterrupt" THEN "exit130" ELSE "crashed"
    /\ UNCHANGED << config, flac_files, flac_version, job, cmd_threads, orig, temp, aggregate,
                    pending_exc, interrupted, report >>

\* The condition without `not test_run`.
RunsRsgainAnyKind == calc_rsgain /\ error_log = <<>>

\* `if calc_rsgain and not test_run and not error_log:`
RunsRsgain == calc_rsgain /\ ~test_run /\ error_log = <<>>

\* The replay-gain step: run_rsgain(directory, thread_count) under RunsRsgain.
ReplayGain ==
    /\ pc = "post"
    /\ rsgain_calls' = IF RunsRsgain THEN rsgain_calls + 1 ELSE rsgain_calls
    /\ pc' = "report"
    /\ UNCHANGED << config, flac_files, flac_version, job, cmd_threads, orig, temp, aggregate,
                    pending_exc, interrupted, logged, printed, log_skipped >>

\* A report that prints the errors whether or not they go to the log.
PrintsAlways == error_log # <<>>

\* The else branch of `if log_to_disk:`: one print per entry of error_log.
PrintsErrors == ~log_to_disk /\ error_log # <<>>

\* write_log(error_log) when log_to_disk (nothing for an empty log; a notice
\* and no log when os.access(".", W_OK | X_OK) fails), else one print per error.
Report ==
    /\ pc = "report"
    /\ \E writable \in BOOLEAN :
          /\ logged' = (log_to_disk /\ error_log # <<>> /\ writable)
          /\ log_skipped' = (log_to_disk /\ error_log # <<>> /\ ~writable)
          /\ printed' = PrintsErrors
    /\ pc' = "done"
    /\ UNCHANGED << config, flac_files, flac_version, job, cmd_threads, orig, temp, aggregate,
                    pending_exc, interrupted, rsgain_calls >>

Next ==
    \/ Preflight
    \/ VersionCheck
    \/ Submit
    \/ \E f \in Files : StartReencode(f)
    \/ \E f \in Files : StartVerify(f)
    \/ \E f \in Files : FinishVerify(f)
    \/ \E f \in Files : FinishEncode(f)
    \/ \E f \in Files : RemoveOriginal(f)
    \/ \E f \in Files : RenameTemp(f)
    \/ \E f \in Files : Collect(f)
    \/ \E f \in Files : CollectRaised(f)
    \/ DispatchDone
    \/ Interrupt
    \/ ShutdownDone
    \/ ReplayGain
    \/ Report

Spec == Init /\ [][Next]_vars

\* Every step but the operator's interrupt: the main thread and the workers
\* are scheduled by the operating system and every external command ends, by
\* its timeout at the latest.
Progress ==
    \/ Preflight
    \/ VersionCheck
    \/ Submit
    \/ \E f \in Files : StartReencode(f)
    \/ \E f \in Files : StartVerify(f)
    \/ \E f \in Files : FinishVerify(f)
    \/ \E f \in Files : FinishEncode(f)
    \/ \E f \in Files : RemoveOriginal(f)
    \/ \E f \in Files : RenameTemp(f)
    \/ \E f \in Files : Collect(f)
    \/ \E f \in Files : CollectRaised(f)
    \/ DispatchDone
    \/ ShutdownDone
    \/ ReplayGain
    \/ Report

FairSpec == Spec /\ WF_vars(Progress)

\* ================================================================ claims
Finished(f) == job[f].pc \in {"returned", "collected"}
InErrorLog(f) == \E i \in 1..Len(error_log) : error_log[i][1] = f
DispatchFinished == pc \in {"post", "report", "done"}
Occurrences(q, x) == Cardinality({i \in 1..Len(q) : q[i] = x})

\* C1: when dispatch finishes, exactly one outcome has been collected for each
\* discovered file, in every mode and for every worker count: the number of
\* collected outcomes is N, none dropped and none duplicated (and in re-encode
\* runs size_stats holds N entries).
C1_OneOutcomePerFile ==
    DispatchFinished =>
        /\ Len(collected) = nfiles
        /\ \A f \in Files : Occurrences(collected, f) = 1
        /\ ~test_run => Len(size_stats) = nfiles

\* Two files were collected against discovery order and dispatch finished.
C1_Witness ==
    /\ pc = "post"
    /\ nfiles >= 2
    /\ collected[1] = 2

\* C2: whenever reencode_flac has returned an outcome with empty diagnostic
\* text, a file is at the original path and none at the temp path.
C2_SuccessLeavesOneFile ==
    \A f \in Files :
        (~test_run /\ Finished(f) /\ ~Truthy(job[f].diag))
            => /\ orig[f] \in {"original", "reencoded"}
               /\ temp[f] = "absent"

\* A re-encode went through delete and rename and returned success.
C2_Witness ==
    \E f \in Files :
        /\ ~test_run
        /\ job[f].pc = "returned"
        /\ job[f].exit = "zero"
        /\ ~Truthy(job[f].diag)
        /\ orig[f] = "reencoded"

\* C3 (as claimed): whenever reencode_flac has returned the "manual
\* replacement required" outcome, both the original and the temp file are
\* present.
C3_LockedKeepsBoth ==
    \A f \in Files :
        (Finished(f) /\ job[f].diag = LockedText)
            => /\ orig[f] = "original"
               /\ temp[f] = "complete"

\* C4 (as claimed): a re-encode job whose encoder exited non-zero returns an
\* outcome with non-empty diagnostic text, counted as an error once collected,
\* with size-before = size-after, no temp file and the original untouched.
C4_NonZeroExitIsError ==
    \A f \in Files :
        (~test_run /\ Finished(f) /\ job[f].exit = "nonzero")
            => /\ Truthy(job[f].diag)
               /\ job[f].pc = "collected" => InErrorLog(f)
               /\ job[f].before = job[f].after
               /\ temp[f] = "absent"
               /\ orig[f] = "original"

\* C5 (as claimed): a job whose command timed out yields a failure outcome:
\* non-empty diagnostic text, in the error log once collected; for a
\* re-encode job no temp file and size-before = size-after.
C5_TimeoutIsError ==
    \A f \in Files :
        (Finished(f) /\ job[f].exit = "timeout")
            => /\ Truthy(job[f].diag)
               /\ job[f].pc = "collected" => InErrorLog(f)
               /\ ~test_run => (temp[f] = "absent" /\ job[f].before = job[f].after)

\* C6 (as claimed): in verify mode a collected file is left out of the error
\* log if and only if its command exited with status zero and wrote no
\* diagnostic text, and the error count is the number of files logged.
C6_VerifySuccessIff ==
    test_run =>
        /\ \A f \in Files :
              job[f].pc = "collected" =>
                  (~InErrorLog(f) <=> (job[f].exit = "zero" /\ job[f].diag = EmptyText))
        /\ error_count = Len(error_log)

\* C7 (as claimed): no per-file failure is raised out of a job: no job ends
\* by raising and the run never ends with an uncaught exception.
C7_NoFailureRaised ==
    /\ \A f \in Files : job[f].pc # "raised"
    /\ pc # "crashed"

\* The queried version is below 1.5.0.
Predates(v) == v[1] < 1 \/ (v[1] = 1 /\ v[2] < 5)

\* C8: when sequential-wide re-encode mode meets an encoder whose version
\* predates 1.5.0, the run has ended at the version check: no job started, no
\* file created, deleted or renamed, no outcome produced.
C8_OldEncoderAbortsUntouched ==
    (flac_version \notin {NoVersion, VersionTimeout} /\ Predates(flac_version))
        => /\ pc = "exited"
           /\ \A f \in Files :
                 job[f] = NewJob /\ orig[f] = "original" /\ temp[f] = "absent"
           /\ collected = <<>> /\ size_stats = <<>> /\ error_log = <<>>
           /\ rsgain_calls = 0

\* The version check met flac 1.4.3 with files waiting.
C8_Witness ==
    /\ SequentialWide
    /\ flac_version = <<1, 4, 3>>
    /\ pc = "exited"
    /\ nfiles >= 1

\* C9 (as claimed): the loudness-tag command runs at most once, and only when
\* enabled, in a re-encode run, after every job completed, with every encoder
\* run successful (exit zero, no timeout, no locked-file outcome).
C9_ReplayGainOnlyAfterSuccess ==
    /\ rsgain_calls <= 1
    /\ rsgain_calls = 1 =>
          /\ calc_rsgain
          /\ ~test_run
          /\ \A f \in Files :
                /\ job[f].pc = "collected"
                /\ job[f].exit = "zero"
                /\ job[f].diag # LockedText

\* C10 (as claimed): once an interrupt has been raised during dispatch no
\* pending job is started, and the process is on its way to exit status 130.
C10_NoStartAfterInterrupt ==
    /\ [][interrupted =>
            \A f \in Files : job[f].pc = "pending" => job'[f].pc = "pending"]_vars
    /\ [](interrupted => pc \in {"shutdown", "exit130"})

C12_VerifyMutatesNothing ==
    test_run =>
        /\ \A f \in Files :
              /\ orig[f] = "original"
              /\ temp[f] = "absent"
              /\ job[f].before = NoSize /\ job[f].after = NoSize
        /\ size_stats = <<>>
        /\ rsgain_calls = 0
        /\ (pc = "done" /\ \A f \in Files :
                              job[f].exit = "zero" /\ job[f].diag = EmptyText)
              => (error_count = 0 /\ error_log = <<>>)

\* A verify run with the loudness option over valid files has completed.
C12_Witness ==
    /\ test_run
    /\ calc_rsgain
    /\ pc = "done"
    /\ nfiles >= 2
    /\ \A f \in Files : job[f].exit = "zero" /\ job[f].diag = EmptyText

\* C13: at every point of a re-encode job, also where an interrupt or an
\* uncaught error left it, the audio is at hand: the unmodified original is
\* at its path, or a completely encoded file is at the temp path or at the
\* original path; and the original is gone only for a job whose encoder
\* exited zero with empty diagnostics.
C13_AudioNeverLost ==
    \A f \in Files :
        /\ \/ orig[f] = "original"
           \/ orig[f] = "reencoded"
           \/ temp[f] = "complete"
        /\ orig[f] # "original" =>
              (job[f].exit = "zero" /\ job[f].diag \in {EmptyText, LockedText})

\* A job was killed between the delete and the rename: only the temp file is left.
C13_Witness ==
    \E f \in Files :
        /\ job[f].pc = "killed"
        /\ orig[f] = "absent"
        /\ temp[f] = "complete"

\* The --threads argument a job started with thread count T carries: T when
\* T > 1, none (0) otherwise.
ThreadsArgFor(t) == IF t > 1 THEN t ELSE 0
Started(f) == job[f].before # NoSize
Unconsumed == {f \in Files : job[f].pc \in InFlightPcs \cup {"returned", "raised"}}

\* C14: in sequential-wide mode at most one job is in flight (started and not
\* yet consumed by the loop), jobs are started and their outcomes collected in
\* discovery order, and every started encoder got --threads=T exactly when T > 1.
C14_SequentialWideOneAtATime ==
    SequentialWide =>
        /\ Cardinality(Unconsumed) <= 1
        /\ \A i \in 1..Len(collected) : collected[i] = i
        /\ \A f \in Files : \A g \in Files :
              (g < f /\ job[f].pc # "pending") => job[g].pc = "collected"
        /\ \A f \in Files : Started(f) => cmd_threads[f] = ThreadsArgFor(thread_count)

\* Two files went through a sequential-wide run with 2 threads each.
C14_Witness ==
    /\ SequentialWide
    /\ thread_count = 2
    /\ collected = <<1, 2>>
    /\ cmd_threads[1] = 2 /\ cmd_threads[2] = 2

\* C15: in fan-out mode with worker count T at most T jobs are in flight, no
\* job is started before the files are submitted, and no encoder command
\* carries a --threads argument, whatever T is.
C15_FanOutBoundedNoThreadsArg ==
    FanOut =>
        /\ Cardinality(InFlight) <= thread_count
        /\ pc \in {"start", "discovered"} => \A f \in Files : job[f] = NewJob
        /\ \A f \in Files : cmd_threads[f] = 0

\* Two encoders run side by side in a pool of two workers.
C15_Witness ==
    /\ FanOut
    /\ ~test_run
    /\ thread_count = 2
    /\ Cardinality({f \in Files : job[f].pc = "encoding"}) = 2

\* C16: at every point the error count is the length of the error log and at
\* most the number of outcomes collected, which is at most the number of
\* files; and in a re-encode run every collected outcome logged as an error
\* was recorded with size-before = size-after.
C16_ErrorCountAndSizes ==
    /\ error_count = Len(error_log)
    /\ error_count <= Len(collected)
    /\ Len(collected) <= nfiles
    /\ ~test_run =>
          /\ Len(size_stats) = Len(collected)
          /\ \A i \in 1..Len(collected) :
                InErrorLog(collected[i]) => size_stats[i][1] = size_stats[i][2]

\* A re-encode run has logged a locked-file outcome and a second error.
C16_Witness ==
    /\ ~test_run
    /\ error_count = 2
    /\ \E i \in 1..Len(error_log) : error_log[i][2] = LockedText

\* The collector's step for file f: the one step that touches the shared collections.
CollectorStep(f) ==
    /\ pc = "dispatch"
    /\ job[f].pc = "returned"
    /\ job'[f].pc = "collected"
    /\ \A g \in Files \ {f} : job'[g] = job[g]
    /\ collected' = Append(collected, f)

\* C17: in fan-out mode the error log, the size statistics and the error
\* count change only in a step of the main thread's loop that consumes one
\* returned outcome (no job step writes them), and no update is lost: the
\* count and the log hold exactly the collected outcomes with diagnostic text.
C17_SingleCollector ==
    /\ [][(FanOut /\ aggregate' # aggregate) => \E f \in Files : CollectorStep(f)]_vars
    /\ [](FanOut =>
            /\ error_count = Cardinality({f \in Files : job[f].pc = "collected"
                                                        /\ Truthy(job[f].diag)})
            /\ \A f \in Files :
                  InErrorLog(f) <=> (job[f].pc = "collected" /\ Truthy(job[f].diag)))

\* One outcome with an error is collected while another completion is pending.
C17_Witness ==
    /\ FanOut
    /\ pc = "dispatch"
    /\ Len(collected) = 1
    /\ error_count = 1
    /\ \E f \in Files : job[f].pc = "returned" /\ Truthy(job[f].diag)

\* The paths a job of file f reads or writes: file_path and, for a re-encode
\* job, temp_file_path.
JobPaths(f) ==
    {flac_files[f]} \cup (IF job[f].temp_path = <<>> THEN {} ELSE {job[f].temp_path})
Discovered == pc \notin {"start", "exited"}

\* C18: discovery yields each candidate path once and one job per candidate;
\* the temp path of a started job differs from every candidate path and from
\* every other job's temp path, so no two jobs in flight at the same time
\* touch the same path.
C18_JobsOwnTheirPaths ==
    Discovered =>
        /\ Len(flac_files) = nfiles
        /\ \A f \in Files : \A g \in Files : f # g => flac_files[f] # flac_files[g]
        /\ \A f \in Files : Started(f) =>
              /\ job[f].temp_path # <<>>
              /\ \A g \in Files : job[f].temp_path # flac_files[g]
              /\ \A g \in Files \ {f} : job[f].temp_path # job[g].temp_path
        /\ \A f \in InFlight : \A g \in InFlight \ {f} : JobPaths(f) \cap JobPaths(g) = {}

\* The encoders of "a.flac" and "a.FLAC" run at the same time.
C18_Witness ==
    /\ FanOut
    /\ ~test_run
    /\ nfiles >= 2
    /\ job[1].pc = "encoding" /\ job[2].pc = "encoding"
    /\ flac_files[1] = <<"a", "flac">> /\ flac_files[2] = <<"a", "FLAC">>

\* C19: a verify run is a fan-out run whatever the mode selector says: the
\* encoder version is never queried, up to T verify jobs run at a time and no
\* job is given a thread-count hint.
C19_VerifyAlwaysFanOut ==
    test_run =>
        /\ FanOut
        /\ flac_version = NoVersion
        /\ Cardinality(InFlight) <= thread_count
        /\ \A f \in Files : cmd_threads[f] = 0 /\ job[f].temp_path = <<>>

\* With -t and -j two verify jobs run side by side.
C19_Witness ==
    /\ test_run
    /\ multi_threaded
    /\ thread_count = 2
    /\ Cardinality({f \in Files : job[f].pc = "verifying"}) = 2

\* C20 (as claimed): under fair scheduling and terminating commands, a run
\* that has entered dispatch collects an outcome of every file and reaches
\* the final summary, unless the operator interrupts it.
C20_DispatchReachesSummary ==
    (pc = "dispatch") ~> (pc = "done" \/ interrupted)

\* The queried version major.minor.patch is at least 1.5.0.
AtLeast150(v) == v[1] > 1 \/ (v[1] = 1 /\ v[2] >= 5)

\* C21 (as claimed): once the encoder's version has been read, the run goes
\* on past the capability check if and only if the version is at least 1.5.0.
C21_AcceptsIffAtLeast150 ==
    (flac_version \notin {NoVersion, VersionTimeout})
        => (pc # "exited" <=> AtLeast150(flac_version))

====
